---- MODULE Spec2Model ----
(***************************************************************************)
(* Model of the sprite generator's fetch-and-compose pipeline:             *)
(* Generator.GenSprite (coordinator), Generator.startSendingInputs         *)
(* (feeder goroutine), worker.Run (worker goroutines), the goroutine that  *)
(* closes the output channel, and Generator.drawSprite (compositor).       *)
(*                                                                         *)
(* Durations are integers (one unit = one step of the smallest interval).  *)
(* Channels are sequences with a capacity and a closed flag.               *)
(***************************************************************************)
EXTENDS Integers, Sequences, FiniteSets, TLC

\* ---- bounds of the model ------------------------------------------------
MaxEnd == 2
\* the largest End of the runs checked under fairness
FairMaxEnd == 2
\* the number of GenSprite calls that run on one Generator together
MaxCalls == 2

\* ---- program constants --------------------------------------------------
\* image/jpeg refuses images with a side of 1<<16 pixels or more
JpegMaxSide == 65536
\* decoded width of a thumbnail of the test service
ThumbWidth == 128

Nil == "nil"
\* a nil *image.RGBA
NilSprite == [alloc |-> FALSE, w |-> 0, h |-> 0]
\* an error: status and body are the fields of a structured packager error,
\* text is the message of an error made by fmt.Errorf
NoErr == [kind |-> "none", tc |-> -1, status |-> 0, body |-> "", text |-> <<>>]
CtxErr ==
  [kind |-> "cancel", tc |-> -1, status |-> 0, body |-> "", text |-> <<>>]
TranslateErr ==
  [kind |-> "translate", tc |-> -1, status |-> 0, body |-> "", text |-> <<>>]
\* the error of jpeg.Encode
EncodeErr ==
  [kind |-> "encode", tc |-> -1, status |-> 0, body |-> "", text |-> <<>>]

\* height of the thumbnails of the test service
ThumbHeight == 72
\* a height that makes a sprite of two rows too tall for the encoder
TallHeight == 40000

\* results of one fetch: worker.process
FetchKinds == {"ok", "transport", "e4xx", "e5xx", "decode"}

VARIABLES
  opts,          \* GenSpriteOptions of the call
  maxWorkers,    \* Generator.MaxWorkers
  service,       \* the thumbnail service of this run: the answers it gives
                 \* and whether it scales its thumbnails to the URL's sides
  ctxDone,       \* opts.Context is cancelled
  ctxAtCall,     \* opts.Context was already cancelled when GenSprite was called
  pc,            \* position of the GenSprite goroutine
  callErr,       \* err returned by drawSprite
  ret,           \* what GenSprite returned
  fpc,           \* position of the feeder goroutine
  ftc,           \* the feeder's loop variable timecode
  wpc,           \* position of each worker goroutine
  wcur,          \* the input each worker holds
  wurl,          \* the URL each worker fetches
  wres,          \* the error each worker holds
  wg,            \* sync.WaitGroup counter
  inputs,        \* chan workerInput
  inputsClosed,
  imgs,          \* chan workerOutput
  imgsClosed,
  workersErrs,   \* chan error of the workers
  inputErrs,     \* chan error of the feeder
  workersAbort,  \* closed?
  inputAbort,    \* closed?
  sprite,        \* spriteDrawer.sprite
  cells,         \* how often each cell of the sprite was drawn
  origins,       \* where in the sprite each cell was drawn
  emitted,       \* history: timecodes the feeder pushed, in order
  fetched,       \* history: outcome of the fetch of each timecode
  nfetch,        \* history: number of fetches per timecode
  werrs,         \* history: errors the workers emitted
  ferr,          \* the error the feeder took from workerErrs and holds
  g,             \* the Generator's client and sync.Once
  calls          \* the GenSprite calls that run on the Generator together

vars == <<opts, maxWorkers, service, ctxDone, ctxAtCall, pc, callErr, ret,
          fpc, ftc, wpc, wcur, wurl, wres, wg, inputs, inputsClosed, imgs,
          imgsClosed, workersErrs, inputErrs, workersAbort, inputAbort,
          sprite, cells, origins, emitted, fetched, nfetch, werrs, ferr,
          g, calls>>

\* ---- pure functions -----------------------------------------------------
Abs(x) == IF x < 0 THEN -x ELSE x

\* Go's integer division truncates toward zero
GoDiv(a, b) ==
  LET q == Abs(a) \div Abs(b)
  IN IF (a < 0) # (b < 0) THEN -q ELSE q

\* mutant: a started interval counts as a whole one
NRoundsUp(o) == GoDiv(o.End - o.Start + o.Interval - 1, o.Interval) + 1

\* GenSpriteOptions.N
N(o) == GoDiv(o.End - o.Start, o.Interval) + 1

\* mutant: the configured ceiling is not applied
NWorkersNoCeiling(o, mw) == GoDiv(N(o), 2) + 1
\* nworkers of Generator.startWorkers
NWorkers(o, mw) ==
  LET nworkers == GoDiv(N(o), 2) + 1
  IN IF nworkers > mw THEN mw ELSE nworkers

InputsCap(o, mw) == NWorkers(o, mw)
ImgsCap(o, mw) == NWorkers(o, mw) * 2
ErrsCap(o, mw) == NWorkers(o, mw) + 1

\* columns of Generator.drawSprite: opts.Columns as given, at most N
Columns(o) ==
  LET columns == o.Columns
  IN IF columns > N(o) THEN N(o) ELSE columns

\* rows of Generator.drawSprite: int(math.Ceil(float64(n) / float64(columns))),
\* for columns > 0 (with no column the call panics before it uses rows)
Rows(o) ==
  LET c == Columns(o)
  IN GoDiv(N(o), c) + (IF N(o) % c = 0 THEN 0 ELSE 1)

\* mutant: the position is counted from zero, not from opts.Start
PosIgnoresStart(o, timecode) == GoDiv(timecode, o.Interval)
\* pos of Generator.drawSprite
Pos(o, timecode) == GoDiv(timecode - o.Start, o.Interval)
\* mutant: the row is the position divided by the number of rows
YPosByRows(o, timecode) == GoDiv(Pos(o, timecode), Rows(o))
YPos(o, timecode) == GoDiv(Pos(o, timecode), Columns(o))
XPos(o, timecode) == Pos(o, timecode) - YPos(o, timecode) * Columns(o)

\* the timecodes of the feeder's loop, for timecode := Start; timecode <= End;
\* timecode += Interval: none when End < Start (Interval is positive in every
\* call of the model)
Timecodes(o) ==
  IF o.End < o.Start
    THEN {}
    ELSE {o.Start + k * o.Interval :
            k \in 0..((o.End - o.Start) \div o.Interval)}

\* http.StatusOK
StatusOK == 200

\* what the service sends for each kind of answer: the thumbnail, or the
\* status and body of http.Error; a transport error has no response
Response(kind) ==
  IF kind = "e4xx" THEN [status |-> 400, body |-> "invalid timecode"]
  ELSE IF kind = "e5xx" THEN [status |-> 500, body |-> "something went wrong"]
  ELSE IF kind \in {"ok", "decode"} THEN [status |-> StatusOK, body |-> "jpeg"]
  ELSE [status |-> 0, body |-> ""]

\* the letterbox flag of the requests of a call
AddBlackBars(o) == o.KeepAspectRatio

\* if i.width > 0: the width goes into the URL
WidthInURL(i) == i.width > 0

\* time.Millisecond, in the nanoseconds of a time.Duration
Millisecond == 1000000

\* strings.TrimRight(s, "/") on a string given as its sequence of pieces
RECURSIVE TrimRight(_)
TrimRight(s) ==
  IF s # <<>> /\ s[Len(s)] = "/"
    THEN TrimRight(SubSeq(s, 1, Len(s) - 1))
    ELSE s

\* the decimal digits of n >= 0: strconv.FormatInt(n, 10) and %d
RECURSIVE FormatInt(_)
FormatInt(n) ==
  LET digit == <<"0", "1", "2", "3", "4", "5", "6", "7", "8", "9">>[(n % 10) + 1]
  IN IF n < 10 THEN <<digit>> ELSE Append(FormatInt(n \div 10), digit)

\* strings.Join(parts, "-")
RECURSIVE Join(_)
Join(parts) ==
  IF Len(parts) = 1
    THEN parts[1]
    ELSE parts[1] \o <<"-">> \o Join(Tail(parts))

\* the error worker.process returns for a fetch of this kind: the error of
\* client.Get or of jpeg.Decode, and for a response that is not a 200
\* fmt.Errorf("invalid response from video-packager: %d - %s", status, body),
\* an error that has nothing but its text
ProcessError(kind, timecode) ==
  [kind |-> kind, tc |-> timecode, status |-> 0, body |-> "",
   text |-> IF Response(kind).status \notin {0, StatusOK}
              THEN <<"invalid response from video-packager: ">>
                     \o FormatInt(Response(kind).status)
                     \o <<" - ", Response(kind).body>>
              ELSE <<>>]

\* the workerInput the feeder builds for a timecode
WorkerInput(o, timecode) ==
  [prefix |-> o.Prefix, width |-> o.Width, height |-> o.Height,
   timecode |-> timecode, addBlackBars |-> AddBlackBars(o)]

\* workerInput.url
Url(i) ==
  LET milli == i.timecode - (i.timecode % Millisecond)
      thumb == <<<<"thumb">>, FormatInt(milli \div Millisecond)>>
      withW == IF WidthInURL(i)
                 THEN Append(thumb, <<"w">> \o FormatInt(i.width))
                 ELSE thumb
      suffixParts == IF i.height > 0
                       THEN Append(withW, <<"h">> \o FormatInt(i.height))
                       ELSE withW
  IN TrimRight(i.prefix) \o <<"/">> \o Join(suffixParts) \o <<".jpg">>
\* the image jpeg.Decode returns for a request of the call: what the service
\* sent for its URL. A service that scales sends the sides the URL asks for
\* (-w, -h; a side it does not ask for is that of the video's thumbnail); a
\* service that does not, as fakePackager.genImage, sends the thumbnail as it
\* is. The letterbox flag is not in the URL and has no part in it
Decoded(svc, o) ==
  IF svc.scales
    THEN [w |-> IF WidthInURL(WorkerInput(o, o.Start))
                  THEN o.Width ELSE ThumbWidth,
          h |-> IF o.Height > 0 THEN o.Height ELSE ThumbHeight]
    ELSE [w |-> ThumbWidth, h |-> ThumbHeight]

\* drawInput.dimensions
Dimensions(o) ==
  [w |-> IF AddBlackBars(o) THEN o.Width ELSE Decoded(service, o).w,
   h |-> Decoded(service, o).h]

\* mutant: the whole difference is used as the offset
OffsetNotHalved(o) ==
  LET diff == Dimensions(o).w - Decoded(service, o).w
  IN IF AddBlackBars(o) /\ diff > 0 THEN diff ELSE 0
\* offset of spriteDrawer.draw
Offset(o) ==
  LET diff == Dimensions(o).w - Decoded(service, o).w
  IN IF AddBlackBars(o) /\ diff > 0 THEN GoDiv(diff, 2) ELSE 0

\* sp of spriteDrawer.draw: where the image of a timecode is drawn
Origin(o, timecode) ==
  <<Dimensions(o).w * XPos(o, timecode) + Offset(o),
    Dimensions(o).h * YPos(o, timecode)>>

\* no image drawn
NoOrigin == <<-1, -1>>

\* mutant: the canvas is one cell high, whatever the number of rows
NewSpriteOneRow(o) ==
  [alloc |-> TRUE,
   w |-> Dimensions(o).w * Columns(o), h |-> Dimensions(o).h]
\* the canvas spriteDrawer.draw allocates on the first result
NewSprite(o) ==
  [alloc |-> TRUE,
   w |-> Dimensions(o).w * Columns(o), h |-> Dimensions(o).h * Rows(o)]

\* mutant: the bytes written so far are returned along with the error
EncodeKeepsBytes(s) ==
  IF ~s.alloc
    THEN [kind |-> "panic", data |-> Nil, err |-> NoErr]
    ELSE IF s.w >= JpegMaxSide \/ s.h >= JpegMaxSide
      THEN [kind |-> "err", data |-> "jpeg", err |-> EncodeErr]
      ELSE [kind |-> "ok", data |-> "jpeg", err |-> NoErr]

\* jpeg.Encode into a fresh bytes.Buffer, then buf.Bytes()
Encode(s) ==
  IF ~s.alloc
    THEN [kind |-> "panic", data |-> Nil, err |-> NoErr]
    ELSE IF s.w >= JpegMaxSide \/ s.h >= JpegMaxSide
      THEN [kind |-> "err", data |-> Nil, err |-> EncodeErr]
      ELSE [kind |-> "ok", data |-> "jpeg", err |-> NoErr]

\* the result of the error path of GenSprite
ErrReturn(e) == [kind |-> "err", data |-> Nil, err |-> e]

\* mutant: the loop of startWorkers starts one goroutine too many
WorkersOneMore == 1..(NWorkers(opts, maxWorkers) + 1)
Workers == 1..NWorkers(opts, maxWorkers)

NoInput == -1

\* Generator.MaxWorkers and GenSpriteOptions.Columns of the calls of the model
MaxWorkersChoices == {1, 2}
ColumnChoices == {1, 2}

\* the calls of the model: any range, interval and layout, thumbnails of the
\* test service
OptsSet ==
  {o \in [Start : 0..1, End : 0..MaxEnd, Interval : 1..2,
          Columns : ColumnChoices, Height : {ThumbHeight},
          Prefix : {<<"p">>}, Width : {0}, KeepAspectRatio : {FALSE},
          ContinueOnError : BOOLEAN, VideoOK : BOOLEAN] : o.End >= o.Start}

\* calls for one column of very tall thumbnails
TallOptsSet ==
  {o \in [Start : 0..1, End : 0..MaxEnd, Interval : 1..2,
          Columns : {1}, Height : {TallHeight},
          Prefix : {<<"p">>}, Width : {0}, KeepAspectRatio : {FALSE},
          ContinueOnError : BOOLEAN, VideoOK : BOOLEAN] : o.End >= o.Start}

\* the calls checked under fairness
FairOptsSet ==
  [Start : {0}, End : 0..FairMaxEnd, Interval : {1},
   Columns : {1}, Height : {ThumbHeight},
   Prefix : {<<"p">>}, Width : {0}, KeepAspectRatio : {FALSE},
   ContinueOnError : BOOLEAN, VideoOK : BOOLEAN]

\* a nil *http.Client
NoClient == 0

\* a Generator no call has used: client is nil, the sync.Once is fresh; made
\* counts the clients cleanhttp.DefaultPooledClient has made for it
NewGenerator == [client |-> NoClient, o |-> "fresh", made |-> 0]

\* g.initGenerator() of a call that has the Generator to itself: g.o.Do runs
\* the function if no call has run it
InitGenerator(gen) ==
  IF gen.o = "fresh"
    THEN [client |-> gen.made + 1, o |-> "done", made |-> gen.made + 1]
    ELSE gen

\* the calls that share a Generator
Calls == 1..MaxCalls

\* what a call has not made yet
NoObject == 0

\* the calls before they start: nothing made, no worker started; heap counts
\* the objects made so far (make and image.NewRGBA give a new one each time)
NoCalls ==
  [heap |-> 0,
   of |-> [c \in Calls |->
             [pc |-> "idle", clients |-> <<>>,
              inputs |-> NoObject, imgs |-> NoObject, workersErrs |-> NoObject,
              workersAbort |-> NoObject, inputErrs |-> NoObject,
              inputAbort |-> NoObject, sprite |-> NoObject]]]

\* the cells of the sprite of a call: none when the call has no column
Grid(o) ==
  IF Columns(o) = 0
    THEN {}
    ELSE (0..(Columns(o) - 1)) \X (0..(Rows(o) - 1))

\* the services of a run: these answers, thumbnails scaled or not
Services(kinds, scaling) == [kinds : {kinds}, scales : scaling]

InitWith(os, services) ==
  /\ opts \in os
  /\ service \in services
  /\ maxWorkers \in MaxWorkersChoices
  /\ ctxDone = FALSE
  /\ ctxAtCall = FALSE
  /\ pc = "idle"
  /\ callErr = NoErr
  /\ ret = [kind |-> "none", data |-> Nil, err |-> NoErr]
  /\ fpc = "idle"
  /\ ftc = opts.Start
  /\ wpc = [w \in Workers |-> "idle"]
  /\ wcur = [w \in Workers |-> NoInput]
  /\ wurl = [w \in Workers |-> <<>>]
  /\ wres = [w \in Workers |-> NoErr]
  /\ wg = 0
  /\ inputs = <<>>
  /\ inputsClosed = FALSE
  /\ imgs = <<>>
  /\ imgsClosed = FALSE
  /\ workersErrs = <<>>
  /\ inputErrs = <<>>
  /\ workersAbort = FALSE
  /\ inputAbort = FALSE
  /\ sprite = NilSprite
  /\ cells = [c \in Grid(opts) |-> 0]
  /\ origins = [c \in Grid(opts) |-> NoOrigin]
  /\ emitted = <<>>
  /\ fetched = [t \in Timecodes(opts) |-> "none"]
  /\ nfetch = [t \in Timecodes(opts) |-> 0]
  /\ werrs = {}
  /\ ferr = NoErr
  /\ g = NewGenerator
  /\ calls = NoCalls

\* calls for ten thumbnails in 1, 2 and 10 columns and in more columns than
\* thumbnails
GridOptsSet ==
  [Start : {0}, End : {18}, Interval : {2},
   Columns : {1, 2, 10, 11}, Height : {ThumbHeight},
   Prefix : {<<"p">>}, Width : {0}, KeepAspectRatio : {FALSE},
   ContinueOnError : {FALSE}, VideoOK : {TRUE}]

\* the calls of TestGenSprite's layouts: ten thumbnails, Columns unset (0), 2
\* and 10
LayoutOptsSet ==
  [Start : {0}, End : {18}, Interval : {2},
   Columns : {0, 2, 10}, Height : {ThumbHeight},
   Prefix : {<<"p">>}, Width : {0}, KeepAspectRatio : {FALSE},
   ContinueOnError : {FALSE}, VideoOK : {TRUE}]

\* the requests of TestWorkerInputURL and the black bars of TestGenSprite:
\* prefixes with and without trailing slashes, timecodes with and without a
\* part below the millisecond, sides given or not
ThumbOptsSet ==
  {o \in [Start : {0, 531 * Millisecond + 2531},
          End : {4 * Millisecond, 535 * Millisecond + 2531},
          Interval : {2 * Millisecond},
          Columns : {1, 2}, Height : {0, ThumbHeight},
          Prefix : {<<"p">>, <<"p", "/">>, <<"p", "/", "/">>},
          Width : {0, 96, 200}, KeepAspectRatio : BOOLEAN,
          ContinueOnError : {FALSE}, VideoOK : {TRUE}] :
     o.End >= o.Start /\ o.End - o.Start <= 4 * Millisecond}

Init == InitWith(OptsSet, Services(FetchKinds, {FALSE}))

\* the requests with sides are made to a service that scales and to one that
\* does not
InitThumb == InitWith(ThumbOptsSet, Services({"ok"}, BOOLEAN))

\* the test service answers every thumbnail of the video
InitGrid == InitWith(GridOptsSet, Services({"ok"}, {FALSE}))

InitLayout == InitWith(LayoutOptsSet, Services({"ok"}, {FALSE}))

\* the tall thumbnails come from a service that scales to the height asked for
InitTall == InitWith(TallOptsSet, Services(FetchKinds, {TRUE}))

\* under fairness the service answers 200, 4xx or 5xx
FairInit == InitWith(FairOptsSet, Services({"ok", "e4xx", "e5xx"}, {FALSE}))

\* ---- the caller's context -----------------------------------------------
Cancel ==
  /\ ~ctxDone
  /\ pc # "done"
  /\ ctxDone' = TRUE
  /\ UNCHANGED <<opts, maxWorkers, service, ctxAtCall, pc, callErr, ret, fpc,
                 ftc, wpc, wcur, wurl, wres, wg, inputs, inputsClosed, imgs,
                 imgsClosed, workersErrs, inputErrs, workersAbort, inputAbort,
                 sprite, cells, origins, emitted, fetched, nfetch, werrs,
                 ferr, g, calls>>

\* ---- Generator.GenSprite ------------------------------------------------
\* mutant: the translator's error is ignored
TranslateIgnoresError ==
  /\ pc = "idle"
  /\ g' = InitGenerator(g)
  /\ ctxAtCall' = ctxDone
  /\ pc' = "translated"
  /\ UNCHANGED <<opts, maxWorkers, service, ctxDone, callErr, ret, fpc, ftc,
                 wpc, wcur, wurl, wres, wg, inputs, inputsClosed, imgs,
                 imgsClosed, workersErrs, inputErrs, workersAbort, inputAbort,
                 sprite, cells, origins, emitted, fetched, nfetch, werrs,
                 ferr, calls>>

\* g.Translator(opts.VideoURL) and the early return
Translate ==
  /\ pc = "idle"
  /\ g' = InitGenerator(g)
  /\ ctxAtCall' = ctxDone
  /\ IF opts.VideoOK
       THEN pc' = "translated" /\ ret' = ret
       ELSE pc' = "done" /\ ret' = ErrReturn(TranslateErr)
  /\ UNCHANGED <<opts, maxWorkers, service, ctxDone, callErr, fpc, ftc, wpc,
                 wcur, wurl, wres, wg, inputs, inputsClosed, imgs, imgsClosed,
                 workersErrs, inputErrs, workersAbort, inputAbort, sprite,
                 cells, origins, emitted, fetched, nfetch, werrs, ferr,
                 calls>>

\* g.startWorkers and g.startSendingInputs: the goroutines exist from here
StartWorkers ==
  /\ pc = "translated"
  /\ pc' = "draw"
  /\ wpc' = [w \in Workers |-> "select"]
  /\ wg' = NWorkers(opts, maxWorkers)
  /\ fpc' = "loop"
  /\ ftc' = opts.Start
  /\ UNCHANGED <<opts, maxWorkers, service, ctxDone, ctxAtCall, callErr, ret,
                 wcur, wurl, wres, inputs, inputsClosed, imgs, imgsClosed,
                 workersErrs, inputErrs, workersAbort, inputAbort, sprite,
                 cells, origins, emitted, fetched, nfetch, werrs, ferr, g,
                 calls>>

\* mutant: the output channel is closed without waiting for the workers
CloseImgsNoWait ==
  /\ pc \notin {"idle", "translated"}
  /\ fpc # "idle"
  /\ ~imgsClosed
  /\ imgsClosed' = TRUE
  /\ UNCHANGED <<opts, maxWorkers, service, ctxDone, ctxAtCall, pc, callErr,
                 ret, fpc, ftc, wpc, wcur, wurl, wres, wg, inputs,
                 inputsClosed, imgs, workersErrs, inputErrs, workersAbort,
                 inputAbort, sprite, cells, origins, emitted, fetched, nfetch,
                 werrs, ferr, g, calls>>
\* the goroutine of startWorkers: wg.Wait(); close(imgs)
CloseImgs ==
  /\ pc \notin {"idle", "translated"}
  /\ fpc # "idle"
  /\ wg = 0
  /\ ~imgsClosed
  /\ imgsClosed' = TRUE
  /\ UNCHANGED <<opts, maxWorkers, service, ctxDone, ctxAtCall, pc, callErr,
                 ret, fpc, ftc, wpc, wcur, wurl, wres, wg, inputs,
                 inputsClosed, imgs, workersErrs, inputErrs, workersAbort,
                 inputAbort, sprite, cells, origins, emitted, fetched, nfetch,
                 werrs, ferr, g, calls>>

\* ---- Generator.startSendingInputs: the feeder goroutine -------------------
\* mutant: the loop variable does not advance
FeederSendNoAdvance ==
  /\ fpc = "loop"
  /\ ftc <= opts.End
  /\ Len(inputs) < InputsCap(opts, maxWorkers)
  /\ inputs' = Append(inputs, ftc)
  /\ emitted' = Append(emitted, ftc)
  /\ UNCHANGED <<opts, maxWorkers, service, ctxDone, ctxAtCall, pc, callErr,
                 ret, fpc, ftc, wpc, wcur, wurl, wres, wg, inputsClosed, imgs,
                 imgsClosed, workersErrs, inputErrs, workersAbort, inputAbort,
                 sprite, cells, origins, fetched, nfetch, werrs, ferr, g,
                 calls>>

\* mutant: a request that finds the queue full is dropped
FeederSendDrops ==
  /\ fpc = "loop"
  /\ ftc <= opts.End
  /\ inputs' = IF Len(inputs) < InputsCap(opts, maxWorkers)
                 THEN Append(inputs, ftc) ELSE inputs
  /\ emitted' = Append(emitted, ftc)
  /\ ftc' = ftc + opts.Interval
  /\ UNCHANGED <<opts, maxWorkers, service, ctxDone, ctxAtCall, pc, callErr,
                 ret, fpc, wpc, wcur, wurl, wres, wg, inputsClosed, imgs,
                 imgsClosed, workersErrs, inputErrs, workersAbort, inputAbort,
                 sprite, cells, origins, fetched, nfetch, werrs, ferr, g,
                 calls>>
\* case inputs <- input, then timecode += opts.Interval
FeederSend ==
  /\ fpc = "loop"
  /\ ftc <= opts.End
  /\ Len(inputs) < InputsCap(opts, maxWorkers)
  /\ inputs' = Append(inputs, ftc)
  /\ emitted' = Append(emitted, ftc)
  /\ ftc' = ftc + opts.Interval
  /\ UNCHANGED <<opts, maxWorkers, service, ctxDone, ctxAtCall, pc, callErr,
                 ret, fpc, wpc, wcur, wurl, wres, wg, inputsClosed, imgs,
                 imgsClosed, workersErrs, inputErrs, workersAbort, inputAbort,
                 sprite, cells, origins, fetched, nfetch, werrs, ferr, g,
                 calls>>

\* case <-abort: return (the deferred close(inputs) runs)
FeederAbort ==
  /\ fpc = "loop"
  /\ ftc <= opts.End
  /\ inputAbort
  /\ inputsClosed' = TRUE
  /\ fpc' = "done"
  /\ UNCHANGED <<opts, maxWorkers, service, ctxDone, ctxAtCall, pc, callErr,
                 ret, ftc, wpc, wcur, wurl, wres, wg, inputs, imgs,
                 imgsClosed, workersErrs, inputErrs, workersAbort, inputAbort,
                 sprite, cells, origins, emitted, fetched, nfetch, werrs,
                 ferr, g, calls>>

\* case <-opts.Context.Done(): errs <- opts.Context.Err(); the return and its
\* deferred close(inputs) are FeederReturn
FeederCtxDone ==
  /\ fpc = "loop"
  /\ ftc <= opts.End
  /\ ctxDone
  /\ Len(inputErrs) < 1
  /\ inputErrs' = Append(inputErrs, CtxErr)
  /\ fpc' = "return"
  /\ UNCHANGED <<opts, maxWorkers, service, ctxDone, ctxAtCall, pc, callErr,
                 ret, ftc, wpc, wcur, wurl, wres, wg, inputs, inputsClosed,
                 imgs, imgsClosed, workersErrs, workersAbort, inputAbort,
                 sprite, cells, origins, emitted, fetched, nfetch, werrs,
                 ferr, g, calls>>


\* case err := <-workerErrs: the feeder holds the error it took
FeederRelay ==
  /\ fpc = "loop"
  /\ ftc <= opts.End
  /\ workersErrs # <<>>
  /\ workersErrs' = Tail(workersErrs)
  /\ ferr' = Head(workersErrs)
  /\ fpc' = "relay"
  /\ UNCHANGED <<opts, maxWorkers, service, ctxDone, ctxAtCall, pc, callErr,
                 ret, ftc, wpc, wcur, wurl, wres, wg, inputs, inputsClosed,
                 imgs, imgsClosed, inputErrs, workersAbort, inputAbort,
                 sprite, cells, origins, emitted, fetched, nfetch, werrs, g,
                 calls>>

\* mutant: errs is unbuffered, the relay needs the coordinator to be reading
FeederRelaySendUnbuffered ==
  /\ fpc = "relay"
  /\ pc = "draw"
  /\ Len(inputErrs) < 1
  /\ inputErrs' = Append(inputErrs, ferr)
  /\ fpc' = "return"
  /\ UNCHANGED <<opts, maxWorkers, service, ctxDone, ctxAtCall, pc, callErr,
                 ret, ftc, wpc, wcur, wurl, wres, wg, inputs, inputsClosed,
                 imgs, imgsClosed, workersErrs, workersAbort, inputAbort,
                 sprite, cells, origins, emitted, fetched, nfetch, werrs,
                 ferr, g, calls>>
\* errs <- err, with the error taken from workerErrs
FeederRelaySend ==
  /\ fpc = "relay"
  /\ Len(inputErrs) < 1
  /\ inputErrs' = Append(inputErrs, ferr)
  /\ fpc' = "return"
  /\ UNCHANGED <<opts, maxWorkers, service, ctxDone, ctxAtCall, pc, callErr,
                 ret, ftc, wpc, wcur, wurl, wres, wg, inputs, inputsClosed,
                 imgs, imgsClosed, workersErrs, workersAbort, inputAbort,
                 sprite, cells, origins, emitted, fetched, nfetch, werrs,
                 ferr, g, calls>>

\* return after errs was sent on: the deferred close(inputs) runs
FeederReturn ==
  /\ fpc = "return"
  /\ inputsClosed' = TRUE
  /\ fpc' = "done"
  /\ UNCHANGED <<opts, maxWorkers, service, ctxDone, ctxAtCall, pc, callErr,
                 ret, ftc, wpc, wcur, wurl, wres, wg, inputs, imgs,
                 imgsClosed, workersErrs, inputErrs, workersAbort, inputAbort,
                 sprite, cells, origins, emitted, fetched, nfetch, werrs,
                 ferr, g, calls>>

\* mutant: the loop ends one item early (timecode < opts.End)
FeederExitEarly ==
  /\ fpc = "loop"
  /\ ftc >= opts.End
  /\ inputsClosed' = TRUE
  /\ fpc' = "done"
  /\ UNCHANGED <<opts, maxWorkers, service, ctxDone, ctxAtCall, pc, callErr,
                 ret, ftc, wpc, wcur, wurl, wres, wg, inputs, imgs,
                 imgsClosed, workersErrs, inputErrs, workersAbort, inputAbort,
                 sprite, cells, origins, emitted, fetched, nfetch, werrs,
                 ferr, g, calls>>

\* the loop condition fails: the goroutine ends, close(inputs)
FeederExit ==
  /\ fpc = "loop"
  /\ ftc > opts.End
  /\ inputsClosed' = TRUE
  /\ fpc' = "done"
  /\ UNCHANGED <<opts, maxWorkers, service, ctxDone, ctxAtCall, pc, callErr,
                 ret, ftc, wpc, wcur, wurl, wres, wg, inputs, imgs,
                 imgsClosed, workersErrs, inputErrs, workersAbort, inputAbort,
                 sprite, cells, origins, emitted, fetched, nfetch, werrs,
                 ferr, g, calls>>

\* ---- worker.Run -----------------------------------------------------------
\* case input, ok := <-inputs with ok: the fetch of input starts
WorkerRecv(w) ==
  /\ wpc[w] = "select"
  /\ inputs # <<>>
  /\ inputs' = Tail(inputs)
  /\ wcur' = [wcur EXCEPT ![w] = Head(inputs)]
  /\ wurl' = [wurl EXCEPT ![w] = Url(WorkerInput(opts, Head(inputs)))]
  /\ wpc' = [wpc EXCEPT ![w] = "process"]
  /\ nfetch' = [nfetch EXCEPT ![Head(inputs)] = @ + 1]
  /\ UNCHANGED <<opts, maxWorkers, service, ctxDone, ctxAtCall, pc, callErr,
                 ret, fpc, ftc, wres, wg, inputsClosed, imgs, imgsClosed,
                 workersErrs, inputErrs, workersAbort, inputAbort, sprite,
                 cells, origins, emitted, fetched, werrs, ferr, g, calls>>

\* case input, ok := <-inputs with !ok: return (group.Done)
WorkerClosed(w) ==
  /\ wpc[w] = "select"
  /\ inputs = <<>>
  /\ inputsClosed
  /\ wpc' = [wpc EXCEPT ![w] = "done"]
  /\ wg' = wg - 1
  /\ UNCHANGED <<opts, maxWorkers, service, ctxDone, ctxAtCall, pc, callErr,
                 ret, fpc, ftc, wcur, wurl, wres, inputs, inputsClosed, imgs,
                 imgsClosed, workersErrs, inputErrs, workersAbort, inputAbort,
                 sprite, cells, origins, emitted, fetched, nfetch, werrs,
                 ferr, g, calls>>

\* case <-abort: return
WorkerAbort(w) ==
  /\ wpc[w] = "select"
  /\ workersAbort
  /\ wpc' = [wpc EXCEPT ![w] = "done"]
  /\ wg' = wg - 1
  /\ UNCHANGED <<opts, maxWorkers, service, ctxDone, ctxAtCall, pc, callErr,
                 ret, fpc, ftc, wcur, wurl, wres, inputs, inputsClosed, imgs,
                 imgsClosed, workersErrs, inputErrs, workersAbort, inputAbort,
                 sprite, cells, origins, emitted, fetched, nfetch, werrs,
                 ferr, g, calls>>

\* mutant: a failed fetch is tried again
WorkerProcessRetries(w) ==
  /\ wpc[w] = "process"
  /\ \E k \in service.kinds :
       /\ fetched' = [fetched EXCEPT ![wcur[w]] = k]
       /\ IF k = "ok"
            THEN /\ wpc' = [wpc EXCEPT ![w] = "publish"]
                 /\ nfetch' = nfetch
            ELSE /\ wpc' = wpc
                 /\ nfetch' = [nfetch EXCEPT ![wcur[w]] = @ + 1]
  /\ UNCHANGED <<opts, maxWorkers, service, ctxDone, ctxAtCall, pc, callErr,
                 ret, fpc, ftc, wcur, wurl, wres, wg, inputs, inputsClosed,
                 imgs, imgsClosed, workersErrs, inputErrs, workersAbort,
                 inputAbort, sprite, cells, origins, emitted, werrs, ferr, g,
                 calls>>
\* w.process(input) returns an image, or an error, which the worker emits
\* whatever it is; client.Get is given no context, so a cancelled call's
\* fetch ends like any other
WorkerProcess(w) ==
  /\ wpc[w] = "process"
  /\ \E k \in service.kinds :
       /\ fetched' = [fetched EXCEPT ![wcur[w]] = k]
       /\ IF k = "ok"
            THEN /\ wpc' = [wpc EXCEPT ![w] = "publish"]
                 /\ wres' = wres
            ELSE /\ wpc' = [wpc EXCEPT ![w] = "emit"]
                 /\ wres' = [wres EXCEPT ![w] = ProcessError(k, wcur[w])]
  /\ UNCHANGED <<opts, maxWorkers, service, ctxDone, ctxAtCall, pc, callErr,
                 ret, fpc, ftc, wcur, wurl, wg, inputs, inputsClosed, imgs,
                 imgsClosed, workersErrs, inputErrs, workersAbort, inputAbort,
                 sprite, cells, origins, emitted, nfetch, werrs, ferr, g,
                 calls>>

\* mutant: the worker goes on with its loop after errs <- err
WorkerEmitContinues(w) ==
  /\ wpc[w] = "emit"
  /\ Len(workersErrs) < ErrsCap(opts, maxWorkers)
  /\ workersErrs' = Append(workersErrs, wres[w])
  /\ werrs' = werrs \cup {wres[w]}
  /\ wpc' = [wpc EXCEPT ![w] = "select"]
  /\ UNCHANGED <<opts, maxWorkers, service, ctxDone, ctxAtCall, pc, callErr,
                 ret, fpc, ftc, wcur, wurl, wres, wg, inputs, inputsClosed,
                 imgs, imgsClosed, inputErrs, workersAbort, inputAbort,
                 sprite, cells, origins, emitted, fetched, nfetch, ferr, g,
                 calls>>
\* errs <- err; the return and its deferred group.Done are WorkerReturn
WorkerEmit(w) ==
  /\ wpc[w] = "emit"
  /\ Len(workersErrs) < ErrsCap(opts, maxWorkers)
  /\ workersErrs' = Append(workersErrs, wres[w])
  /\ werrs' = werrs \cup {wres[w]}
  /\ wpc' = [wpc EXCEPT ![w] = "return"]
  /\ UNCHANGED <<opts, maxWorkers, service, ctxDone, ctxAtCall, pc, callErr,
                 ret, fpc, ftc, wcur, wurl, wres, wg, inputs, inputsClosed,
                 imgs, imgsClosed, inputErrs, workersAbort, inputAbort,
                 sprite, cells, origins, emitted, fetched, nfetch, ferr, g,
                 calls>>

\* return after errs <- err: the deferred w.group.Done() runs
WorkerReturn(w) ==
  /\ wpc[w] = "return"
  /\ wpc' = [wpc EXCEPT ![w] = "done"]
  /\ wg' = wg - 1
  /\ UNCHANGED <<opts, maxWorkers, service, ctxDone, ctxAtCall, pc, callErr,
                 ret, fpc, ftc, wcur, wurl, wres, inputs, inputsClosed, imgs,
                 imgsClosed, workersErrs, inputErrs, workersAbort, inputAbort,
                 sprite, cells, origins, emitted, fetched, nfetch, werrs,
                 ferr, g, calls>>

\* imgs <- workerOutput{img, input}: a plain send, the worker waits for room
\* in imgs and for nothing else
WorkerPublish(w) ==
  /\ wpc[w] = "publish"
  /\ Len(imgs) < ImgsCap(opts, maxWorkers)
  /\ imgs' = Append(imgs, wcur[w])
  /\ wcur' = [wcur EXCEPT ![w] = NoInput]
  /\ wurl' = [wurl EXCEPT ![w] = <<>>]
  /\ wpc' = [wpc EXCEPT ![w] = "select"]
  /\ UNCHANGED <<opts, maxWorkers, service, ctxDone, ctxAtCall, pc, callErr,
                 ret, fpc, ftc, wres, wg, inputs, inputsClosed, imgsClosed,
                 workersErrs, inputErrs, workersAbort, inputAbort, sprite,
                 cells, origins, emitted, fetched, nfetch, werrs, ferr, g,
                 calls>>

\* ---- Generator.drawSprite -------------------------------------------------
\* mutant: a result is drawn in the next free cell, in order of arrival
DrawCellByArrival(o, s, cs, os, timecode) ==
  LET pos == Cardinality({c \in DOMAIN cs : cs[c] > 0})
      ypos == GoDiv(pos, Columns(o))
      xpos == pos - ypos * Columns(o)
  IN [sprite |-> IF ~s.alloc THEN NewSprite(o) ELSE s,
      cells |-> [cs EXCEPT ![<<xpos, ypos>>] = @ + 1],
      origins |-> [os EXCEPT ![<<xpos, ypos>>] =
                     <<Dimensions(o).w * xpos + Offset(o),
                       Dimensions(o).h * ypos>>]]
\* spriteDrawer.draw: allocate the canvas on the first result, draw the cell
DrawCell(o, s, cs, os, timecode) ==
  [sprite |-> IF ~s.alloc THEN NewSprite(o) ELSE s,
   cells |-> [cs EXCEPT ![<<XPos(o, timecode), YPos(o, timecode)>>] = @ + 1],
   origins |-> [os EXCEPT ![<<XPos(o, timecode), YPos(o, timecode)>>] =
                  Origin(o, timecode)]]

\* a call that ended in a run-time panic
Panic == [kind |-> "panic", data |-> Nil, err |-> NoErr]

\* case output, ok := <-imgs with ok: ypos := pos / columns, an integer
\* division that panics when columns is 0, then drawer.draw(input)
DrawRecv ==
  /\ pc = "draw"
  /\ imgs # <<>>
  /\ imgs' = Tail(imgs)
  /\ IF Columns(opts) = 0
       THEN /\ pc' = "done"
            /\ ret' = Panic
            /\ UNCHANGED <<sprite, cells, origins>>
       ELSE /\ sprite' =
                 DrawCell(opts, sprite, cells, origins, Head(imgs)).sprite
            /\ cells' =
                 DrawCell(opts, sprite, cells, origins, Head(imgs)).cells
            /\ origins' =
                 DrawCell(opts, sprite, cells, origins, Head(imgs)).origins
            /\ UNCHANGED <<pc, ret>>
  /\ UNCHANGED <<opts, maxWorkers, service, ctxDone, ctxAtCall, callErr, fpc,
                 ftc, wpc, wcur, wurl, wres, wg, inputs, inputsClosed,
                 imgsClosed, workersErrs, inputErrs, workersAbort, inputAbort,
                 emitted, fetched, nfetch, werrs, ferr, g, calls>>

\* case output, ok := <-imgs with !ok: return drawer.sprite, nil
DrawClosed ==
  /\ pc = "draw"
  /\ imgs = <<>>
  /\ imgsClosed
  /\ pc' = "encode"
  /\ UNCHANGED <<opts, maxWorkers, service, ctxDone, ctxAtCall, callErr, ret,
                 fpc, ftc, wpc, wcur, wurl, wres, wg, inputs, inputsClosed,
                 imgs, imgsClosed, workersErrs, inputErrs, workersAbort,
                 inputAbort, sprite, cells, origins, emitted, fetched, nfetch,
                 werrs, ferr, g, calls>>

\* case err := <-workersErrs: return nil, err
DrawWorkerErr ==
  /\ pc = "draw"
  /\ workersErrs # <<>>
  /\ workersErrs' = Tail(workersErrs)
  /\ callErr' = Head(workersErrs)
  /\ pc' = "closing"
  /\ UNCHANGED <<opts, maxWorkers, service, ctxDone, ctxAtCall, ret, fpc, ftc,
                 wpc, wcur, wurl, wres, wg, inputs, inputsClosed, imgs,
                 imgsClosed, inputErrs, workersAbort, inputAbort, sprite,
                 cells, origins, emitted, fetched, nfetch, werrs, ferr, g,
                 calls>>

\* case err := <-inputErrs: return nil, err
DrawInputErr ==
  /\ pc = "draw"
  /\ inputErrs # <<>>
  /\ inputErrs' = Tail(inputErrs)
  /\ callErr' = Head(inputErrs)
  /\ pc' = "closing"
  /\ UNCHANGED <<opts, maxWorkers, service, ctxDone, ctxAtCall, ret, fpc, ftc,
                 wpc, wcur, wurl, wres, wg, inputs, inputsClosed, imgs,
                 imgsClosed, workersErrs, workersAbort, inputAbort, sprite,
                 cells, origins, emitted, fetched, nfetch, werrs, ferr, g,
                 calls>>

\* case <-opts.Context.Done(): return nil, opts.Context.Err()
DrawCtxDone ==
  /\ pc = "draw"
  /\ ctxDone
  /\ callErr' = CtxErr
  /\ pc' = "closing"
  /\ UNCHANGED <<opts, maxWorkers, service, ctxDone, ctxAtCall, ret, fpc, ftc,
                 wpc, wcur, wurl, wres, wg, inputs, inputsClosed, imgs,
                 imgsClosed, workersErrs, inputErrs, workersAbort, inputAbort,
                 sprite, cells, origins, emitted, fetched, nfetch, werrs,
                 ferr, g, calls>>

\* ---- Generator.GenSprite, after drawSprite --------------------------------
\* close(workersAbort)
CloseWorkersAbort ==
  /\ pc = "closing"
  /\ workersAbort' = TRUE
  /\ pc' = "closingInput"
  /\ UNCHANGED <<opts, maxWorkers, service, ctxDone, ctxAtCall, callErr, ret,
                 fpc, ftc, wpc, wcur, wurl, wres, wg, inputs, inputsClosed,
                 imgs, imgsClosed, workersErrs, inputErrs, inputAbort, sprite,
                 cells, origins, emitted, fetched, nfetch, werrs, ferr, g,
                 calls>>

\* close(inputAbort)
CloseInputAbort ==
  /\ pc = "closingInput"
  /\ inputAbort' = TRUE
  /\ pc' = "waiting"
  /\ UNCHANGED <<opts, maxWorkers, service, ctxDone, ctxAtCall, callErr, ret,
                 fpc, ftc, wpc, wcur, wurl, wres, wg, inputs, inputsClosed,
                 imgs, imgsClosed, workersErrs, inputErrs, workersAbort,
                 sprite, cells, origins, emitted, fetched, nfetch, werrs,
                 ferr, g, calls>>

\* mutant: the error path returns without wg.Wait()
WaitReturnNoWait ==
  /\ pc = "waiting"
  /\ ret' = ErrReturn(callErr)
  /\ pc' = "done"
  /\ UNCHANGED <<opts, maxWorkers, service, ctxDone, ctxAtCall, callErr, fpc,
                 ftc, wpc, wcur, wurl, wres, wg, inputs, inputsClosed, imgs,
                 imgsClosed, workersErrs, inputErrs, workersAbort, inputAbort,
                 sprite, cells, origins, emitted, fetched, nfetch, werrs,
                 ferr, g, calls>>
\* wg.Wait(); return nil, err
WaitReturn ==
  /\ pc = "waiting"
  /\ wg = 0
  /\ ret' = ErrReturn(callErr)
  /\ pc' = "done"
  /\ UNCHANGED <<opts, maxWorkers, service, ctxDone, ctxAtCall, callErr, fpc,
                 ftc, wpc, wcur, wurl, wres, wg, inputs, inputsClosed, imgs,
                 imgsClosed, workersErrs, inputErrs, workersAbort, inputAbort,
                 sprite, cells, origins, emitted, fetched, nfetch, werrs,
                 ferr, g, calls>>

\* jpeg.Encode(&buf, sprite, ...); return buf.Bytes(), err
EncodeReturn ==
  /\ pc = "encode"
  /\ ret' = Encode(sprite)
  /\ pc' = "done"
  /\ UNCHANGED <<opts, maxWorkers, service, ctxDone, ctxAtCall, callErr, fpc,
                 ftc, wpc, wcur, wurl, wres, wg, inputs, inputsClosed, imgs,
                 imgsClosed, workersErrs, inputErrs, workersAbort, inputAbort,
                 sprite, cells, origins, emitted, fetched, nfetch, werrs,
                 ferr, g, calls>>

Feeder ==
  \/ FeederSend \/ FeederAbort \/ FeederCtxDone \/ FeederRelay
  \/ FeederRelaySend \/ FeederReturn \/ FeederExit

Worker(w) ==
  \/ WorkerRecv(w) \/ WorkerClosed(w) \/ WorkerAbort(w)
  \/ WorkerProcess(w) \/ WorkerEmit(w) \/ WorkerReturn(w)
  \/ WorkerPublish(w)

DrawSprite ==
  DrawRecv \/ DrawClosed \/ DrawWorkerErr \/ DrawInputErr \/ DrawCtxDone

Coordinator ==
  \/ Translate \/ StartWorkers \/ DrawSprite
  \/ CloseWorkersAbort \/ CloseInputAbort \/ WaitReturn \/ EncodeReturn

Next ==
  \/ Cancel
  \/ Translate
  \/ StartWorkers
  \/ CloseImgs
  \/ FeederSend
  \/ FeederAbort
  \/ FeederCtxDone
  \/ FeederRelay
  \/ FeederRelaySend
  \/ FeederReturn
  \/ FeederExit
  \/ \E w \in Workers : WorkerRecv(w)
  \/ \E w \in Workers : WorkerClosed(w)
  \/ \E w \in Workers : WorkerAbort(w)
  \/ \E w \in Workers : WorkerProcess(w)
  \/ \E w \in Workers : WorkerEmit(w)
  \/ \E w \in Workers : WorkerReturn(w)
  \/ \E w \in Workers : WorkerPublish(w)
  \/ DrawRecv
  \/ DrawClosed
  \/ DrawWorkerErr
  \/ DrawInputErr
  \/ DrawCtxDone
  \/ CloseWorkersAbort
  \/ CloseInputAbort
  \/ WaitReturn
  \/ EncodeReturn

Spec == Init /\ [][Next]_vars

\* the steps of a call nobody cancels and whose fetches all succeed
CleanNext ==
  \/ Translate
  \/ StartWorkers
  \/ CloseImgs
  \/ FeederSend
  \/ FeederExit
  \/ \E w \in Workers : WorkerRecv(w)
  \/ \E w \in Workers : WorkerClosed(w)
  \/ \E w \in Workers : WorkerProcess(w)
  \/ \E w \in Workers : WorkerPublish(w)
  \/ DrawRecv
  \/ DrawClosed
  \/ EncodeReturn

\* the same program on the layouts of ten thumbnails, as TestGenSprite runs
\* it: no cancellation, every thumbnail served
SpecGrid == InitGrid /\ [][CleanNext]_vars

\* the same program on the layouts of TestGenSprite, Columns unset included
SpecLayout == InitLayout /\ [][CleanNext]_vars

\* the same program on the requests of ThumbOptsSet
SpecThumb == InitThumb /\ [][CleanNext]_vars

\* the same program on very tall thumbnails
SpecTall == InitTall /\ [][Next]_vars

\* Some goroutine that can take a step eventually takes one (the Go
\* scheduler runs every runnable goroutine, and an HTTP request returns).
\* The caller is never obliged to cancel.
Step ==
  \/ Coordinator \/ CloseImgs \/ Feeder
  \/ \E w \in Workers : Worker(w)

Fairness == WF_vars(Step)

FairSpec == FairInit /\ [][Next]_vars /\ Fairness

\* a service whose 200 answers may carry a body that is no image, and whose
\* connection may fail
InitDecode ==
  InitWith(FairOptsSet, Services({"ok", "decode", "transport"}, {FALSE}))

\* the same program against that service
SpecDecode == InitDecode /\ [][Next]_vars

\* GenSprite checks nothing of its options: the calls of the model whose N()
\* comes to at least 1, those with End before Start included
UncheckedOptsSet ==
  {o \in [Start : 0..1, End : 0..MaxEnd, Interval : 1..2,
          Columns : {1}, Height : {ThumbHeight},
          Prefix : {<<"p">>}, Width : {0}, KeepAspectRatio : {FALSE},
          ContinueOnError : BOOLEAN, VideoOK : BOOLEAN] : N(o) >= 1}

InitUnchecked ==
  InitWith(UncheckedOptsSet, Services({"ok", "e5xx"}, {FALSE}))

\* the same program on those calls
SpecUnchecked == InitUnchecked /\ [][Next]_vars
Returned == pc = "done"

\* ---- vocabulary of the claims ---------------------------------------------
\* some fetch of the call has failed
AnyFailure == \E t \in Timecodes(opts) : fetched[t] \notin {"none", "ok"}

\* the cell of timecode t
CellOf(t) == <<XPos(opts, t), YPos(opts, t)>>

\* ---- claims ---------------------------------------------------------------
\* C1: with continueOnError=false, once a worker has emitted an error the call
\* never returns success, whatever the coordinator finds ready when it next
\* selects (closed output queue, queued results, the error).
C1_NeverSuccessAfterWorkerError ==
  (~opts.ContinueOnError /\ werrs # {} /\ Returned) => ret.kind # "ok"

\* C2: whenever GenSprite returns a non-nil error, the returned data is nil.
C2_NoBytesWithError ==
  (Returned /\ ret.err # NoErr) => ret.data = Nil

\* C2 witness: the encoder refused a canvas that was allocated and drawn on.
C2_Witness ==
  /\ Returned
  /\ ret.err.kind = "encode"
  /\ sprite.alloc
  /\ ret.data = Nil

\* C3: a 4xx answer on any item aborts the call, with continueOnError true or
\* false: the call does not succeed and returns no data.
C3_ClientErrorAborts ==
  (Returned /\ \E t \in Timecodes(opts) : fetched[t] = "e4xx")
    => (ret.kind # "ok" /\ ret.data = Nil)

\* C4: with continueOnError=true and fetches that either succeed or fail with
\* 5xx, for every set of failed timecodes the call returns success, the canvas
\* has the size of a failure-free run and exactly the other cells are drawn.
C4_ServerErrorsOnlyOmitCells ==
  ( /\ Returned
    /\ opts.VideoOK
    /\ opts.ContinueOnError
    /\ ~ctxDone
    /\ \A t \in Timecodes(opts) : fetched[t] \in {"ok", "e5xx"} )
  => /\ ret.kind = "ok"
     /\ sprite = NewSprite(opts)
     /\ \A t \in Timecodes(opts) :
          cells[CellOf(t)] = (IF fetched[t] = "ok" THEN 1 ELSE 0)

\* C5: a call made with an already cancelled context returns the cancellation
\* error with nil data, and no canvas is ever allocated.
C5_CancelledBeforeCall ==
  (ctxAtCall /\ opts.VideoOK)
    => (~sprite.alloc /\ (Returned => ret = ErrReturn(CtxErr)))

\* C8: when the translator fails, GenSprite returns its error with nil data,
\* and no worker, no feeder and no fetch was ever started.
C8_TranslationFailureStartsNothing ==
  (~opts.VideoOK /\ pc # "idle")
    => /\ Returned
       /\ ret = ErrReturn(TranslateErr)
       /\ fpc = "idle"
       /\ \A w \in Workers : wpc[w] = "idle"
       /\ wg = 0
       /\ emitted = <<>>
       /\ \A t \in Timecodes(opts) : nfetch[t] = 0

\* C8 witness: a call whose translation failed has returned.
C8_Witness == ~opts.VideoOK /\ Returned /\ ret.err = TranslateErr

\* C10: the feeder pushes requests in strictly increasing timecode order.
C10_EmissionStrictlyIncreasing ==
  \A i, j \in 1..Len(emitted) : i < j => emitted[i] < emitted[j]

\* C10 witness: the feeder has pushed three requests.
C10_Witness == Len(emitted) >= 3

\* C6: in a run without fetch failure and without cancellation GenSprite
\* eventually returns success, and when it has, the feeder is exhausted, every
\* worker has exited and every position 0..N-1 was fetched and drawn exactly
\* once.
C6_CleanRunSucceedsComplete ==
  /\ <>(~opts.VideoOK \/ ctxDone \/ AnyFailure \/ (Returned /\ ret.kind = "ok"))
  /\ []((Returned /\ opts.VideoOK /\ ~ctxDone /\ ~AnyFailure)
          => /\ ret.kind = "ok"
             /\ fpc = "done" /\ ftc > opts.End /\ inputs = <<>>
             /\ wg = 0
             /\ \A w \in Workers : wpc[w] = "done"
             /\ \A t \in Timecodes(opts) :
                  nfetch[t] = 1 /\ cells[CellOf(t)] = 1
             /\ \A c \in DOMAIN cells :
                  (c \notin {CellOf(t) : t \in Timecodes(opts)}) => cells[c] = 0)

\* C6 witness: a clean run of three items has returned success.
C6_Witness ==
  /\ Returned /\ ret.kind = "ok" /\ ~ctxDone /\ ~AnyFailure
  /\ N(opts) = 3
  /\ \A t \in Timecodes(opts) : cells[CellOf(t)] = 1

\* C7: after a worker's error or a cancellation GenSprite eventually returns;
\* the coordinator never waits forever for a worker.
C7_AbortedCallReturns == (werrs # {} \/ ctxDone) ~> Returned

\* C9: N is floor((end - start) / interval) + 1, and in a run without failure
\* and cancellation the feeder emits exactly the N requests
\* start + k*interval, 0 <= k < N.
C9_FeederEmitsN ==
  /\ N(opts) = ((opts.End - opts.Start) \div opts.Interval) + 1
  /\ (fpc = "done" /\ ~ctxDone /\ ~AnyFailure)
       => emitted = [k \in 1..N(opts) |-> opts.Start + (k - 1) * opts.Interval]

\* C9 witness: the feeder has finished a clean run of three items.
C9_Witness ==
  /\ fpc = "done" /\ ~ctxDone /\ ~AnyFailure
  /\ Len(emitted) = 3

\* the workers started by the call
Started == {w \in DOMAIN wpc : wpc[w] # "idle"}

\* C11: the call starts W = min(maxWorkers, N/2 + 1) workers (integer
\* division), and with maxWorkers >= 1 and N >= 1 that is 1 <= W <= maxWorkers
C11_WorkerCount ==
  LET half == (N(opts) \div 2) + 1
      W == IF maxWorkers < half THEN maxWorkers ELSE half
  IN /\ (maxWorkers >= 1 /\ N(opts) >= 1) => (1 <= W /\ W <= maxWorkers)
     /\ (opts.VideoOK /\ pc \notin {"idle", "translated"}) =>
          Cardinality(Started) = W
     /\ wg <= W

C11_Witness ==
  /\ pc = "draw"
  /\ N(opts) = 3
  /\ maxWorkers = 1
  /\ Cardinality(Started) = 1

\* C12: the result of timecode start + k*interval, 0 <= k < N, is placed at
\* position k, row position/columns and column position - row*columns, with
\* row*columns + col = position, 0 <= col < columns and 0 <= row < rows; no
\* other cell is ever drawn
C12_GridPlacement ==
  LET given == IF opts.Columns = 0 THEN 1 ELSE opts.Columns
      columns == IF given > N(opts) THEN N(opts) ELSE given
      rows == (N(opts) + columns - 1) \div columns
      At(k) == opts.Start + k * opts.Interval
  IN /\ \A k \in 0..(N(opts) - 1) :
          LET pos == Pos(opts, At(k))
              row == YPos(opts, At(k))
              col == XPos(opts, At(k))
          IN /\ pos = k
             /\ row = pos \div columns
             /\ col = pos - row * columns
             /\ row * columns + col = pos
             /\ 0 <= col /\ col < columns
             /\ 0 <= row /\ row < rows
     /\ \A c \in DOMAIN cells :
          cells[c] > 0 =>
            \E k \in 0..(N(opts) - 1) :
              /\ c = <<k % columns, k \div columns>>
              /\ fetched[At(k)] = "ok"

C12_Witness ==
  /\ Columns(opts) = 2
  /\ N(opts) = 3
  /\ cells[<<1, 0>>] = 1
  /\ cells[<<0, 1>>] = 1

\* C13: the effective column count is 1 when columns is 0, N when columns > N
\* and columns otherwise, and rows = ceil(N / effective columns); columns = 0
\* gives N rows of one column, and for N = 10 columns 0, 10 and 2 give
\* 10 by 1, 1 by 10 and 5 by 2 (rows by columns); no call ends in a division
\* by zero and the canvas a call allocates has exactly that grid
C13_EffectiveLayout ==
  LET n == N(opts)
      eff == IF opts.Columns = 0 THEN 1
             ELSE IF opts.Columns > n THEN n ELSE opts.Columns
      rows == CHOOSE r \in 0..n : r * eff >= n /\ (r - 1) * eff < n
  IN /\ ret.kind # "panic"
     /\ Columns(opts) = eff
     /\ Rows(opts) = rows
     /\ opts.Columns = 0 => (Columns(opts) = 1 /\ Rows(opts) = n)
     /\ (n = 10 /\ opts.Columns = 0) => (Rows(opts) = 10 /\ Columns(opts) = 1)
     /\ (n = 10 /\ opts.Columns = 10) => (Rows(opts) = 1 /\ Columns(opts) = 10)
     /\ (n = 10 /\ opts.Columns = 2) => (Rows(opts) = 5 /\ Columns(opts) = 2)
     /\ DOMAIN cells = (0..(eff - 1)) \X (0..(rows - 1))
     /\ sprite.alloc =>
          (sprite.w = ThumbWidth * eff /\ sprite.h = opts.Height * rows)

\* the results the compositor has consumed: fetched, and neither waiting on
\* imgs nor still (or for ever) in the hands of a worker
Drawn ==
  {t \in Timecodes(opts) :
     /\ fetched[t] = "ok"
     /\ \A i \in 1..Len(imgs) : imgs[i] # t
     /\ \A w \in DOMAIN wpc : wcur[w] # t}

\* C14: compositing is order-independent: the canvas dimensions and the
\* content of every cell depend only on the set of results consumed, whatever
\* the order they arrived in
C14_OrderIndependent ==
  LET consumed == Drawn
  IN /\ sprite = (IF consumed = {} THEN NilSprite ELSE NewSprite(opts))
     /\ \A c \in DOMAIN cells :
          cells[c] = Cardinality({t \in consumed : CellOf(t) = c})

\* the result of the second timecode was consumed before that of the first
C14_Witness ==
  /\ N(opts) = 3
  /\ sprite.alloc
  /\ (opts.Start + opts.Interval) \in Drawn
  /\ imgs # <<>>
  /\ Head(imgs) = opts.Start

\* C15: with letterboxing the cell is as wide as the requested width and as
\* high as the decoded image, and the image is drawn inside its cell at x
\* offset max(0, (cellWidth - decodedWidth) / 2); without letterboxing the cell
\* is as wide as the decoded image and the offset is 0; for width 200 and a
\* decoded image of 128 by 72 the cell is 200 wide and the offset is 36
C15_LetterboxCell ==
  LET img == Decoded(service, opts)
      cellWidth == IF opts.KeepAspectRatio THEN opts.Width ELSE img.w
      cellHeight == img.h
      half == (cellWidth - img.w) \div 2
      xOffset == IF opts.KeepAspectRatio /\ half > 0 THEN half ELSE 0
  IN /\ sprite.alloc =>
          /\ sprite.w = cellWidth * Columns(opts)
          /\ sprite.h = cellHeight * Rows(opts)
     /\ \A c \in DOMAIN cells :
          cells[c] > 0 =>
            /\ origins[c] = <<c[1] * cellWidth + xOffset, c[2] * cellHeight>>
            /\ (cellWidth >= img.w) =>
                 origins[c][1] + img.w <= (c[1] + 1) * cellWidth
     /\ (opts.KeepAspectRatio /\ opts.Width = 200 /\ img.w = 128 /\ img.h = 72) =>
          /\ Dimensions(opts).w = 200
          /\ cells[<<0, 0>>] > 0 => origins[<<0, 0>>] = <<36, 0>>

C15_Witness ==
  /\ Returned
  /\ ret.kind = "ok"
  /\ opts.KeepAspectRatio
  /\ opts.Width = 200
  /\ Decoded(service, opts) = [w |-> 128, h |-> 72]
  /\ Columns(opts) = 2
  /\ sprite.w = 400
  /\ origins[<<1, 0>>] = <<236, 0>>

\* C16: the URL a worker fetches is the prefix without its trailing slashes,
\* '/thumb-' and the timecode in whole milliseconds, '-w<width>' only if
\* width > 0 and letterbox is false, '-h<height>' only if height > 0, then
\* '.jpg'; it is a function of (prefix, timecode, width, height, letterbox)
C16_FetchURL ==
  LET p == opts.Prefix
      base == CHOOSE b \in {SubSeq(p, 1, k) : k \in 0..Len(p)} :
                /\ b = <<>> \/ b[Len(b)] # "/"
                /\ \A j \in (Len(b) + 1)..Len(p) : p[j] = "/"
      wPart == IF opts.Width > 0 /\ ~opts.KeepAspectRatio
                 THEN <<"-", "w">> \o FormatInt(opts.Width) ELSE <<>>
      hPart == IF opts.Height > 0
                 THEN <<"-", "h">> \o FormatInt(opts.Height) ELSE <<>>
      Expected(timecode) ==
        base \o <<"/", "thumb", "-">> \o FormatInt(timecode \div Millisecond)
             \o wPart \o hPart \o <<".jpg">>
  IN \A w \in DOMAIN wpc :
       wpc[w] = "process" => wurl[w] = Expected(wcur[w])

\* the errors of non-200 responses
IsPackagerError(e) == e.kind \in {"e4xx", "e5xx"}

\* C17: every non-200 response is surfaced by the worker as a structured error
\* whose status and body are the status code and the body of that response,
\* and when such an error is fatal the error GenSprite returns is that error
C17_PackagerErrorSurfaced ==
  /\ \A e \in werrs \cup {wres[w] : w \in {v \in DOMAIN wpc : wpc[v] = "emit"}} :
       IsPackagerError(e) =>
         /\ fetched[e.tc] = e.kind
         /\ e.status = Response(e.kind).status
         /\ e.status # StatusOK
         /\ e.body = Response(e.kind).body
  /\ ( /\ Returned
       /\ ~ctxDone
       /\ werrs # {}
       /\ \A e \in werrs : IsPackagerError(e) )
     => (ret.kind = "err" /\ ret.err \in werrs)

\* C18: fetches are never retried: every request the feeder emitted is taken
\* from the work queue by at most one worker and fetched at most once, whether
\* the fetch succeeds or fails
C18_NoRetry ==
  \A t \in Timecodes(opts) :
    /\ nfetch[t] <= 1
    /\ \A v, w \in DOMAIN wpc : (wcur[v] = t /\ wcur[w] = t) => v = w
    /\ \A i, j \in 1..Len(emitted) :
         (emitted[i] = t /\ emitted[j] = t) => i = j
    /\ nfetch[t] = 1 => \E i \in 1..Len(emitted) : emitted[i] = t
    /\ fetched[t] # "none" => nfetch[t] = 1

\* a fetch failed, the call went on and has returned: the failed request was
\* fetched once
C18_Witness ==
  /\ Returned
  /\ N(opts) = 3
  /\ \E t \in Timecodes(opts) : fetched[t] = "e5xx" /\ nfetch[t] = 1
  /\ \E t \in Timecodes(opts) : fetched[t] = "ok" /\ nfetch[t] = 1
  /\ \A t \in Timecodes(opts) : nfetch[t] = 1

\* C19: once the abort signal has been raised or the context is cancelled,
\* the feeder emits no further request, even if the work queue has room
C19_FeederStopsOnSignal ==
  [][(inputAbort \/ ctxDone) => emitted' = emitted]_vars

\* C20: once the abort signal has been raised no worker begins a new fetch: a
\* worker at its pull point ends instead of taking another request, even if
\* requests remain in the work queue
C20_NoFetchAfterAbort ==
  [][workersAbort => nfetch' = nfetch]_vars

\* the coordinator has left drawSprite with an error: nobody drains imgs
StoppedDraining == pc \in {"closing", "closingInput", "waiting"}

\* C21: a worker that holds a decoded image and is publishing it when abort or
\* cancellation fires ends without emitting an error (the step that ends the
\* publish either hands the result over or ends the worker, and no error is
\* queued), and no worker stays blocked for ever on a full output queue after
\* the coordinator has stopped draining it
C21_PublishEndsOnAbort ==
  /\ [][\A w \in DOMAIN wpc :
          ( /\ wpc[w] = "publish"
            /\ wpc'[w] # "publish"
            /\ workersAbort \/ ctxDone )
          => /\ werrs' = werrs
             /\ workersErrs' = workersErrs
             /\ wres'[w] = NoErr
             /\ imgs' = imgs => (wpc'[w] = "done" /\ wg' = wg - 1)]_vars
  /\ (StoppedDraining /\ \E w \in DOMAIN wpc : wpc[w] = "publish")
       ~> (\A w \in DOMAIN wpc : wpc[w] = "done")

\* the workers whose fetch failed fatally, and those of them that have emitted
Failed == {w \in DOMAIN wpc : wres[w] # NoErr}
\* the workers that have sent their error, returning or ended
HasEmitted == {w \in Failed : wpc[w] \in {"return", "done"}}

\* C22: a worker whose fetch failed fatally emits exactly one error and ends
\* without pulling another request, so the error queue of capacity W + 1
\* never holds more than W errors and an emission never has to wait, whoever
\* is or is not reading
C22_OneErrorPerWorker ==
  LET W == NWorkers(opts, maxWorkers)
  IN /\ \A w \in Failed :
          /\ wpc[w] \in {"emit", "return", "done"}
          /\ wcur[w] = wres[w].tc
          /\ nfetch[wres[w].tc] = 1
     /\ werrs = {wres[w] : w \in HasEmitted}
     /\ \A v, w \in HasEmitted : wres[v] = wres[w] => v = w
     /\ \A i \in 1..Len(workersErrs) :
          /\ workersErrs[i] \in werrs
          /\ \A j \in 1..Len(workersErrs) :
               workersErrs[i] = workersErrs[j] => i = j
     /\ Len(workersErrs) <= W
     /\ ErrsCap(opts, maxWorkers) = W + 1
     /\ \A w \in DOMAIN wpc :
          wpc[w] = "emit" => Len(workersErrs) < ErrsCap(opts, maxWorkers)

\* both workers of a call have emitted their error after the coordinator had
\* stopped reading: the two errors sit in the queue
C22_Witness ==
  /\ pc \in {"waiting", "done"}
  /\ NWorkers(opts, maxWorkers) = 2
  /\ Len(workersErrs) = 2
  /\ HasEmitted = DOMAIN wpc

\* C23: the work queue never holds more than W requests and the output queue
\* never more than 2*W results, and no request is dropped or overwritten: the
\* requests in the work queue are the last ones emitted, in order, and every
\* earlier one was taken by exactly one worker
C23_BoundedQueues ==
  LET W == NWorkers(opts, maxWorkers)
      taken == Len(emitted) - Len(inputs)
  IN /\ Len(inputs) <= W
     /\ Len(imgs) <= 2 * W
     /\ taken >= 0
     /\ \A i \in 1..Len(inputs) : inputs[i] = emitted[taken + i]
     /\ \A i \in 1..Len(emitted) :
          nfetch[emitted[i]] = (IF i <= taken THEN 1 ELSE 0)

\* the feeder waits with its third request for room in the full work queue
C23_Witness ==
  /\ fpc = "loop"
  /\ ftc = opts.Start + 2 * opts.Interval
  /\ ftc <= opts.End
  /\ Len(inputs) = InputsCap(opts, maxWorkers)
  /\ inputs = <<opts.Start + opts.Interval>>
  /\ nfetch[opts.Start] = 1

\* the fetches in flight: started and not yet come to an outcome
InFlight == {t \in Timecodes(opts) : nfetch[t] > 0 /\ fetched[t] = "none"}

\* C24: at most W = min(maxWorkers, N/2 + 1) fetches are in flight, and each
\* worker has at most one: every fetch in flight is that of exactly one
\* worker, and a worker that fetches holds one request
C24_BoundedParallelism ==
  LET half == (N(opts) \div 2) + 1
      W == IF maxWorkers < half THEN maxWorkers ELSE half
  IN /\ Cardinality(InFlight) <= W
     /\ Cardinality({w \in DOMAIN wpc : wpc[w] = "process"}) <= W
     /\ \A t \in InFlight :
          /\ nfetch[t] = 1
          /\ \E w \in DOMAIN wpc : wpc[w] = "process" /\ wcur[w] = t
     /\ \A v, w \in DOMAIN wpc :
          (wpc[v] = "process" /\ wpc[w] = "process" /\ wcur[v] = wcur[w])
            => v = w
     /\ \A w \in DOMAIN wpc : wpc[w] = "process" => wcur[w] \in InFlight

\* two workers fetch at the same time while a third request waits
C24_Witness ==
  /\ NWorkers(opts, maxWorkers) = 2
  /\ Cardinality(InFlight) = 2
  /\ inputs # <<>>

\* the number of results the compositor has drawn
NDrawn == Cardinality({c \in DOMAIN cells : cells[c] > 0})

\* the canvas is there exactly when a result was drawn, and has the size of
\* the grid
CanvasAsDrawn ==
  LET img == Decoded(service, opts)
      cellWidth == IF opts.KeepAspectRatio THEN opts.Width ELSE img.w
      cellHeight == img.h
  IN /\ sprite.alloc <=> NDrawn > 0
     /\ sprite.alloc =>
          /\ sprite.w = cellWidth * Columns(opts)
          /\ sprite.h = cellHeight * Rows(opts)
     /\ (pc \notin {"draw", "encode"} /\ NDrawn = 0) => sprite = NilSprite

\* C25: the canvas is allocated at most once per call, only when the first
\* result is consumed, cellWidth * columns wide and cellHeight * rows high,
\* and is never resized; a call that fails or is cancelled before any result
\* was consumed never allocates one
C25_LazyCanvas ==
  /\ []CanvasAsDrawn
  /\ [][ /\ sprite.alloc => sprite' = sprite
         /\ sprite' # sprite =>
              /\ pc = "draw"
              /\ imgs # <<>>
              /\ imgs' = Tail(imgs)
              /\ NDrawn = 0 ]_vars

\* a call that had consumed two results failed afterwards: the canvas made for
\* the first result still has the size of the whole grid
C25_Witness ==
  /\ Returned
  /\ ret.kind = "err"
  /\ N(opts) = 3
  /\ NDrawn = 2
  /\ sprite = [alloc |-> TRUE, w |-> ThumbWidth, h |-> 3 * ThumbHeight]

\* no cell was drawn twice, and every result consumed is in its cell
CellsDrawnOnce ==
  /\ \A c \in DOMAIN cells : cells[c] <= 1
  /\ \A t \in Drawn : cells[CellOf(t)] = 1
  /\ NDrawn = Cardinality(Drawn)

\* C26: distinct timecodes the feeder emitted have distinct positions in
\* 0..N-1 and so distinct cells of the grid (each request the feeder emits
\* has a position and a cell that no request emitted before it has): no
\* result is drawn over the cell of another, and no cell is drawn more than
\* once
C26_DistinctCells ==
  /\ []CellsDrawnOnce
  /\ [][emitted' # emitted =>
          LET new == emitted'[Len(emitted')]
          IN /\ Pos(opts, new) \in 0..(N(opts) - 1)
             /\ CellOf(new) \in DOMAIN cells
             /\ \A i \in 1..Len(emitted) :
                  emitted[i] # new =>
                    /\ Pos(opts, emitted[i]) # Pos(opts, new)
                    /\ CellOf(emitted[i]) # CellOf(new)]_vars
  /\ [][cells' # cells =>
          \E c \in DOMAIN cells :
            /\ cells[c] = 0
            /\ cells' = [cells EXCEPT ![c] = 1]]_vars

\* the ten results of a call have each been drawn in a cell of its own of the
\* grid of five rows and two columns
C26_Witness ==
  /\ N(opts) = 10
  /\ Columns(opts) = 2
  /\ Len(emitted) = 10
  /\ Cardinality(Drawn) = 10
  /\ \A c \in (0..1) \X (0..4) : cells[c] = 1

\* what is closed, and who has ended, in a state
ChannelsInOrder ==
  /\ imgsClosed => (wg = 0 /\ \A w \in DOMAIN wpc : wpc[w] = "done")
  /\ inputsClosed <=> fpc = "done"
  /\ inputAbort => workersAbort
  /\ pc = "closing" => (~workersAbort /\ ~inputAbort)
  /\ pc = "closingInput" => (workersAbort /\ ~inputAbort)
  /\ workersAbort => pc \in {"closingInput", "waiting", "done"}
  /\ inputAbort => pc \in {"waiting", "done"}

\* C27: the output queue is closed only after every worker has ended, so no
\* worker publishes to a closed queue; the work queue is closed once, by the
\* feeder as it ends on any of its paths, and nothing is pushed after that;
\* the abort signal is raised at most once
C27_ChannelDiscipline ==
  /\ []ChannelsInOrder
  /\ [][ /\ imgs' # imgs /\ Len(imgs') > Len(imgs) => (~imgsClosed /\ ~imgsClosed')
         /\ imgsClosed => (imgsClosed' /\ Len(imgs') <= Len(imgs))
         /\ inputsClosed' # inputsClosed =>
              (~inputsClosed /\ fpc \in {"loop", "return"} /\ fpc' = "done")
         /\ fpc' # fpc /\ fpc' = "done" => (inputsClosed' /\ ~inputsClosed)
         /\ fpc \in {"relay", "return"} =>
              /\ fpc' # "loop"
              /\ Len(inputs') <= Len(inputs)
              /\ emitted' = emitted
         /\ inputsClosed =>
              (inputsClosed' /\ Len(inputs') <= Len(inputs) /\ emitted' = emitted)
         /\ workersAbort' # workersAbort =>
              (~workersAbort /\ ~inputAbort /\ pc = "closing")
         /\ inputAbort' # inputAbort =>
              (~inputAbort /\ workersAbort /\ pc = "closingInput")
         /\ workersAbort => (workersAbort' /\ pc' # "closing")
         /\ inputAbort =>
              (inputAbort' /\ pc' \notin {"closing", "closingInput"})
       ]_vars

\* a call that failed has returned: both abort signals are raised, the feeder
\* has closed the work queue with a request left in it and the output queue
\* was closed after the last worker
C27_Witness ==
  /\ Returned
  /\ ret.kind = "err"
  /\ workersAbort /\ inputAbort
  /\ inputsClosed /\ inputs # <<>>
  /\ imgsClosed /\ imgs # <<>>
  /\ \A w \in DOMAIN wpc : wpc[w] = "done"

\* C28: whenever GenSprite has returned after a successful translation, with
\* the sprite or with an error, every worker of the call has ended: none is
\* fetching, pulling or publishing
C28_WorkersEndBeforeReturn ==
  (Returned /\ opts.VideoOK) =>
    /\ wg = 0
    /\ \A w \in DOMAIN wpc : wpc[w] = "done"
    /\ InFlight = {}

\* a cancelled call has returned its error after its two workers had ended at
\* their pull point, one of them after a fetch
C28_Witness ==
  /\ Returned
  /\ ret = ErrReturn(CtxErr)
  /\ NWorkers(opts, maxWorkers) = 2
  /\ \A w \in DOMAIN wpc : wpc[w] = "done" /\ wres[w] = NoErr
  /\ \E t \in Timecodes(opts) : fetched[t] = "ok"
  /\ ~imgsClosed

\* the feeder waits for room in the full work queue
FeederBlocked ==
  /\ fpc = "loop"
  /\ ftc <= opts.End
  /\ Len(inputs) = InputsCap(opts, maxWorkers)

\* C29: under fair scheduling the feeder ends on every exit path of
\* GenSprite, also when every worker has ended while requests remain unsent;
\* it is never left waiting for ever on the full work queue after the call
\* has returned (some other case of its select is then ready)
C29_FeederTerminates ==
  /\ (fpc = "loop") ~> (fpc = "done")
  /\ []((FeederBlocked /\ Returned)
          => /\ \A w \in DOMAIN wpc : wpc[w] = "done"
             /\ inputErrs = <<>>
             /\ inputAbort \/ ctxDone \/ workersErrs # <<>>)

\* the only worker has ended on its error while requests remained unsent,
\* the call has returned without raising the abort signal, and the feeder has
\* ended by relaying the error
C29_Witness ==
  /\ Returned
  /\ ~inputAbort
  /\ ~ctxDone
  /\ fpc = "done"
  /\ ftc <= opts.End
  /\ inputs # <<>>
  /\ inputErrs # <<>>
  /\ \A w \in DOMAIN wpc : wpc[w] = "done"

\* the errors a failed call may return: the translator's, one a worker of
\* this call emitted, the cancellation error of a cancelled context
Originating ==
  (IF opts.VideoOK THEN {} ELSE {TranslateErr})
    \cup werrs
    \cup (IF ctxDone THEN {CtxErr} ELSE {})

\* C30: the error a failed call returns is an originating error: the
\* translator's, one a worker of this call emitted (possibly relayed by the
\* feeder) or the cancellation error; an error the feeder relays is passed on
\* unchanged and is never lost: the call that has returned with a relayed
\* error waiting for the coordinator has returned an error
C30_ErrorsOriginateAndArrive ==
  /\ (Returned /\ ret.kind = "err") => ret.err \in Originating
  /\ \A i \in 1..Len(inputErrs) : inputErrs[i] \in werrs \cup {CtxErr}
  /\ \A i \in 1..Len(workersErrs) : workersErrs[i] \in werrs
  /\ (Returned /\ inputErrs # <<>>) => (ret.kind = "err" /\ ret.err # NoErr)

\* the phase of the call's lifecycle a state is in; a call that ended in a
\* panic is in none of the three terminal phases
Phase ==
  IF pc = "idle" THEN "Idle"
  ELSE IF pc = "translated" THEN "Translating"
  ELSE IF pc # "done" THEN "Running"
  ELSE IF ret.kind = "ok" THEN "Succeeded"
  ELSE IF ret.kind = "err" /\ ret.err = CtxErr THEN "Aborted"
  ELSE IF ret.kind = "err" THEN "Failed"
  ELSE "Crashed"

\* the steps of the lifecycle
PhaseSteps ==
  {<<"Idle", "Translating">>, <<"Idle", "Failed">>,
   <<"Translating", "Running">>, <<"Running", "Running">>,
   <<"Running", "Succeeded">>, <<"Running", "Aborted">>,
   <<"Running", "Failed">>}

\* where a call is, and how it may have ended
LifecycleOutcome ==
  /\ Phase \in {"Idle", "Translating", "Running",
                "Succeeded", "Aborted", "Failed"}
  /\ Phase = "Running" => opts.VideoOK
  /\ Phase = "Succeeded" => (ret.err = NoErr /\ ret.data # Nil)
  /\ Phase \in {"Aborted", "Failed"} => (ret.err # NoErr /\ ret.data = Nil)
  /\ Phase = "Aborted" => ctxDone
  /\ (Phase = "Failed" /\ opts.VideoOK) => ret.err \in werrs
  /\ (Returned /\ opts.VideoOK /\ ctxAtCall /\ werrs = {}) => Phase = "Aborted"

\* C31: a call goes Idle, Translating, Running and ends in exactly one of
\* Succeeded, Aborted and Failed; Running is entered only after a successful
\* translation, and a cancelled call ends with the cancellation error, not
\* with a service error, when no service error was raised
C31_Lifecycle ==
  /\ []LifecycleOutcome
  /\ [][Phase' # Phase => <<Phase, Phase'>> \in PhaseSteps]_vars
  /\ [][Returned => (pc' = pc /\ ret' = ret)]_vars

\* the fetch of timecode t ended in an error of one of these kinds and the
\* error is held or was emitted by a worker that goes no further
FatalAt(t, kinds) ==
  /\ fetched[t] \in kinds
  /\ \E w \in DOMAIN wpc :
       /\ wpc[w] \in {"emit", "return", "done"}
       /\ wres[w] = ProcessError(fetched[t], t)

\* C32: a 200 response whose body is no image is treated like a transport
\* error: the cell of either is not drawn and with continueOnError false
\* either is fatal (a worker holds or has emitted the error and goes no
\* further); with continueOnError true the undecodable response is skipped:
\* no worker holds or has emitted an error for it, and the call does not fail
\* with a decode error
C32_DecodeLikeTransport ==
  /\ \A t \in Timecodes(opts) :
       /\ fetched[t] \in {"decode", "transport"} => cells[CellOf(t)] = 0
       /\ (fetched[t] = "transport" /\ ~opts.ContinueOnError)
            => FatalAt(t, {"transport"})
       /\ fetched[t] = "decode" =>
            IF opts.ContinueOnError
              THEN /\ \A w \in DOMAIN wpc : wres[w].tc # t
                   /\ \A e \in werrs : e.tc # t
              ELSE FatalAt(t, {"decode"})
  /\ (Returned /\ opts.ContinueOnError) => ret.err.kind # "decode"

\* C33: every request that reaches Running has interval > 0 and end >= start:
\* for a request with interval <= 0 or end < start neither the feeder nor a
\* worker is ever started
C33_OnlyValidRequestsRun ==
  (pc \notin {"idle", "translated"} /\ opts.VideoOK)
    => /\ fpc # "idle"
       /\ Started # {}
       /\ opts.Interval > 0
       /\ opts.End >= opts.Start

\* ---- several calls on one Generator ---------------------------------------
\* the variables of the single call followed above
callVars ==
  <<opts, maxWorkers, service, ctxDone, ctxAtCall, pc, callErr, ret, fpc, ftc,
    wpc, wcur, wurl, wres, wg, inputs, inputsClosed, imgs, imgsClosed,
    workersErrs, inputErrs, workersAbort, inputAbort, sprite, cells, origins,
    emitted, fetched, nfetch, werrs, ferr>>

\* the calls made together: the options and MaxWorkers of each are opts and
\* maxWorkers
SharedOptsSet == {o \in FairOptsSet : ~o.ContinueOnError}

\* call c is at position p
CallAt(c, p) == calls.of[c].pc = p

\* g.o.Do without the sync.Once: the call looks at g.client and makes one if
\* it sees nil
OnceDoUnguarded(c) ==
  /\ CallAt(c, "idle")
  /\ calls' = [calls EXCEPT !.of[c].pc =
                 IF g.client = NoClient THEN "once" ELSE "translate"]
  /\ g' = g
  /\ UNCHANGED callVars

\* g.initGenerator(): g.o.Do(f). The first call runs f; a call that arrives
\* while f runs waits for it; a call that arrives later goes on at once
OnceDo(c) ==
  /\ CallAt(c, "idle")
  /\ g.o # "running"
  /\ IF g.o = "fresh"
       THEN /\ g' = [g EXCEPT !.o = "running"]
            /\ calls' = [calls EXCEPT !.of[c].pc = "once"]
       ELSE /\ g' = g
            /\ calls' = [calls EXCEPT !.of[c].pc = "translate"]
  /\ UNCHANGED callVars

\* f: g.client = cleanhttp.DefaultPooledClient(), and Do returns
OnceFunc(c) ==
  /\ CallAt(c, "once")
  /\ g' = [client |-> g.made + 1, o |-> "done", made |-> g.made + 1]
  /\ calls' = [calls EXCEPT !.of[c].pc = "translate"]
  /\ UNCHANGED callVars

\* g.Translator(opts.VideoURL) of call c and the early return
CallTranslate(c) ==
  /\ CallAt(c, "translate")
  /\ calls' = [calls EXCEPT !.of[c].pc =
                 IF opts.VideoOK THEN "make" ELSE "done"]
  /\ UNCHANGED <<g, callVars>>

\* startWorkers: the four make(chan ...) of call c
CallMakeChannels(c) ==
  /\ CallAt(c, "make")
  /\ calls' = [calls EXCEPT !.heap = @ + 4,
                            !.of[c].inputs = calls.heap + 1,
                            !.of[c].imgs = calls.heap + 2,
                            !.of[c].workersErrs = calls.heap + 3,
                            !.of[c].workersAbort = calls.heap + 4,
                            !.of[c].pc = "workers"]
  /\ UNCHANGED <<g, callVars>>

\* startWorkers: one turn of the loop, worker{client: g.client, group: &wg}
CallStartWorker(c) ==
  /\ CallAt(c, "workers")
  /\ Len(calls.of[c].clients) < NWorkers(opts, maxWorkers)
  /\ calls' = [calls EXCEPT !.of[c].clients = Append(@, g.client)]
  /\ UNCHANGED <<g, callVars>>

\* startSendingInputs: the two make(chan ...) of call c
CallStartSendingInputs(c) ==
  /\ CallAt(c, "workers")
  /\ Len(calls.of[c].clients) = NWorkers(opts, maxWorkers)
  /\ calls' = [calls EXCEPT !.heap = @ + 2,
                            !.of[c].inputErrs = calls.heap + 1,
                            !.of[c].inputAbort = calls.heap + 2,
                            !.of[c].pc = "draw"]
  /\ UNCHANGED <<g, callVars>>

\* drawSprite: the drawer of call c and the canvas it makes
CallDrawSprite(c) ==
  /\ CallAt(c, "draw")
  /\ calls' = [calls EXCEPT !.heap = @ + 1,
                            !.of[c].sprite = calls.heap + 1,
                            !.of[c].pc = "done"]
  /\ UNCHANGED <<g, callVars>>

InitShared == InitWith(SharedOptsSet, Services({"ok"}, {FALSE}))

SharedNext ==
  \E c \in Calls :
    \/ OnceDo(c)
    \/ OnceFunc(c)
    \/ CallTranslate(c)
    \/ CallMakeChannels(c)
    \/ CallStartWorker(c)
    \/ CallStartSendingInputs(c)
    \/ CallDrawSprite(c)

\* MaxCalls calls of GenSprite on one Generator, each in its own goroutine
SpecShared == InitShared /\ [][SharedNext]_vars

\* the queues, abort signals and canvas call c has made
ObjectsOf(c) ==
  {calls.of[c].inputs, calls.of[c].imgs, calls.of[c].workersErrs,
   calls.of[c].workersAbort, calls.of[c].inputErrs, calls.of[c].inputAbort,
   calls.of[c].sprite} \ {NoObject}

\* C34: the HTTP client of a Generator is made exactly once, also when
\* several GenSprite calls run on it together (never a second client, and one
\* exists as soon as a call is past initGenerator); every worker of every call
\* holds that client; and no queue, abort signal or canvas of one call is one
\* of another call
C34_OneClientNothingElseShared ==
  /\ g.made <= 1
  /\ \A c \in Calls :
       /\ calls.of[c].pc \notin {"idle", "once"}
            => (g.made = 1 /\ g.client # NoClient)
       /\ \A i \in 1..Len(calls.of[c].clients) :
            /\ calls.of[c].clients[i] = g.client
            /\ calls.of[c].clients[i] # NoClient
  /\ \A c, d \in Calls : c # d => ObjectsOf(c) \cap ObjectsOf(d) = {}

\* the calls have run together to their end with two workers each (the last
\* call made its queues before the first one and its canvas after it), and
\* one client was made
C34_Witness ==
  /\ \A c \in Calls :
       /\ calls.of[c].pc = "done"
       /\ Len(calls.of[c].clients) = 2
       /\ calls.of[c].sprite # NoObject
  /\ calls.of[MaxCalls].inputs < calls.of[1].inputs
  /\ calls.of[MaxCalls].sprite > calls.of[1].sprite
  /\ g.made = 1

====
